---- MODULE Spec2Model ----
(***************************************************************************)
(* Model of the data reshaping and comparative-analytics layer of the      *)
(* portfolio dashboard (src/app.py): the two stress loaders, the           *)
(* correlation summary, the by-strategy treemap and the bucket comparison. *)
(*                                                                         *)
(* Text is a sequence of one-character strings, so that splitting and      *)
(* substring search are computed as Python computes them.  Numbers are     *)
(* integers: stress PnL in thousandths of a basis point, correlations in   *)
(* hundredths, dates as day numbers.                                       *)
(***************************************************************************)
EXTENDS Integers, Sequences, FiniteSets, TLC

VARIABLES
    sheet,            \* SpecSplit: the sheet key handed to the split
    split_out,        \* SpecSplit: (portfolio, scenario) or NotRun
    xls,              \* the stress workbook: a sequence of sheets
    stress_bystrat,   \* value returned by load_stress_bystrat, or NotRun
    load_error,       \* exception raised by a loader, or NoError
    stress_data,      \* value returned by load_stress_data, or NotRun
    pc,               \* position of the script run in the stress tab
    date,             \* stress tab: "Select date"
    sel_ports,        \* stress tab: "Select portfolios"
    sel_scen,         \* stress tab: "Select scenarios"
    df,               \* stress tab: stress_data after the three filters
    dates_bystrat,    \* by strategy: the dates offered by "Select date"
    selected_date,    \* by strategy: "Select date"
    clicked_portfolio,\* by strategy: "Analysis Portfolio"
    clicked_scenario, \* by strategy: "Scenario"
    df_detail,        \* by strategy: the filtered detail records
    max_abs,          \* by strategy: the colour normaliser
    fig_detail,       \* by strategy: the treemap handed to the chart, or NoFigure
    bystrat_view,     \* by strategy: what the section showed
    selected_portfolio,\* comparison: "Analysis portfolio"
    bucket,           \* comparison: per-scenario bucket statistics
    plot_df,          \* comparison: subject rows joined to the bucket
    bucket_values,    \* SpecQuantile: the stress values of one scenario group
    bucket_stats,     \* SpecQuantile: the aggregated row, empty before the run
    corr,             \* correlation tab: value returned by load_corr_data
    start,            \* correlation tab: first day of "Date range"
    end,              \* correlation tab: last day of "Date range"
    selected,         \* correlation tab: "Select series"
    corr_df,          \* correlation tab: corr.loc[start:end]
    stats_df,         \* correlation tab: the summary statistics table
    corr_view         \* correlation tab: what the tab showed

splitVars == <<sheet, split_out>>
loadVars == <<xls, stress_bystrat, load_error, stress_data>>
controlVars == <<date, sel_ports, sel_scen, df>>
bystratVars == <<dates_bystrat, selected_date, clicked_portfolio,
                 clicked_scenario, df_detail, max_abs, fig_detail,
                 bystrat_view>>
compareVars == <<selected_portfolio, bucket, plot_df>>

quantVars == <<bucket_values, bucket_stats>>
corrVars == <<corr, start, end, selected, corr_df, stats_df, corr_view>>

vars == <<splitVars, loadVars, pc, controlVars, bystratVars, compareVars,
          quantVars, corrVars>>

NotRun == "not run"
NoError == [type |-> "none", sheet |-> <<>>, pattern |-> <<>>]
None == <<"None">>
NoFigure == [labels |-> <<>>, parents |-> <<>>, values |-> <<>>,
             colors |-> <<>>]

\* the values of the variables a specification does not use
SplitIdle == sheet = <<>> /\ split_out = NotRun
LoadIdle ==
    /\ xls = <<>>
    /\ stress_bystrat = NotRun
    /\ load_error = NoError
    /\ stress_data = NotRun
QuantIdle == bucket_values = <<>> /\ bucket_stats = <<>>
CorrIdle ==
    /\ corr = <<>> /\ start = 0 /\ end = 0 /\ selected = {}
    /\ corr_df = <<>> /\ stats_df = <<>> /\ corr_view = NotRun
TabIdle ==
    /\ pc = "idle"
    /\ date = None /\ sel_ports = {} /\ sel_scen = {} /\ df = <<>>
    /\ dates_bystrat = {}
    /\ selected_date = None /\ clicked_portfolio = None
    /\ clicked_scenario = None /\ df_detail = <<>> /\ max_abs = 0
    /\ fig_detail = NoFigure /\ bystrat_view = NotRun
    /\ selected_portfolio = None /\ bucket = <<>> /\ plot_df = <<>>
StressIdle == QuantIdle /\ CorrIdle /\ TabIdle

\* ------------------------------------------------------------------------
\* Text helpers
\* ------------------------------------------------------------------------
Delim == <<"&", "&">>

\* pattern p occurs in s at position i
OccursAt(p, s, i) ==
    /\ i >= 1
    /\ i + Len(p) - 1 <= Len(s)
    /\ SubSeq(s, i, i + Len(p) - 1) = p

\* Python: p in s
Contains(p, s) == \E i \in 1..Len(s) : OccursAt(p, s, i)

\* Python: s.find(p) (1-based), for a p that occurs in s
FirstIndex(p, s) ==
    CHOOSE i \in 1..Len(s) :
        OccursAt(p, s, i) /\ \A j \in 1..(i - 1) : ~OccursAt(p, s, j)

LastIndex(p, s) ==
    CHOOSE i \in 1..Len(s) :
        OccursAt(p, s, i) /\ \A j \in (i + 1)..Len(s) : ~OccursAt(p, s, j)

\* Python: s.rsplit("&&", 1) instead of s.split("&&", 1)
SplitKeyAtLast(k) ==
    IF Contains(Delim, k)
    THEN <<SubSeq(k, 1, LastIndex(Delim, k) - 1),
           SubSeq(k, LastIndex(Delim, k) + Len(Delim), Len(k))>>
    ELSE <<k, k>>

\* sheet.split("&&", 1) if "&&" in sheet else (sheet, sheet)
SplitKey(k) ==
    IF Contains(Delim, k)
    THEN <<SubSeq(k, 1, FirstIndex(Delim, k) - 1),
           SubSeq(k, FirstIndex(Delim, k) + Len(Delim), Len(k))>>
    ELSE <<k, k>>

\* ------------------------------------------------------------------------
\* SpecSplit: the compound-key split applied to every short key
\* ------------------------------------------------------------------------
MaxKeyLen == 4
Alphabet == {"A", "B", "&"}
Keys == UNION {[1..n -> Alphabet] : n \in 0..MaxKeyLen}

InitSplit ==
    /\ sheet \in Keys
    /\ split_out = NotRun
    /\ LoadIdle
    /\ StressIdle

SplitSheet ==
    /\ split_out = NotRun
    /\ split_out' = SplitKey(sheet)
    /\ UNCHANGED <<sheet, loadVars, pc, controlVars, bystratVars, compareVars,
                   quantVars, corrVars>>

NextSplit == SplitSheet

SpecSplit == InitSplit /\ [][NextSplit]_vars

\* C5: a key containing "&&" splits at the first "&&" (the portfolio part
\* and the delimiter's first character hold no "&&"), the two parts rejoin
\* to the key; a key without "&&" gives portfolio = scenario = key.
SplitRoundTrip ==
    split_out # NotRun =>
        LET portfolio == split_out[1]
            scenario == split_out[2]
        IN  IF Contains(Delim, sheet)
            THEN /\ portfolio \o Delim \o scenario = sheet
                 /\ ~Contains(Delim, portfolio \o <<"&">>)
            ELSE portfolio = sheet /\ scenario = sheet

\* a key with two overlapping delimiters has been split
SplitRoundTripWitness ==
    /\ split_out # NotRun
    /\ sheet = <<"A", "&", "&", "&">>
    /\ split_out = <<<<"A">>, <<"&">>>>

\* ------------------------------------------------------------------------
\* Column headers and case-insensitive header matching
\* ------------------------------------------------------------------------
UpperCase == <<"A","B","C","D","E","F","G","H","I","J","K","L","M",
               "N","O","P","Q","R","S","T","U","V","W","X","Y","Z">>
LowerCase == <<"a","b","c","d","e","f","g","h","i","j","k","l","m",
               "n","o","p","q","r","s","t","u","v","w","x","y","z">>

Characters ==
    {UpperCase[i] : i \in 1..Len(UpperCase)}
    \cup {LowerCase[i] : i \in 1..Len(LowerCase)} \cup {" ", "&"}

\* str.lower(), one character at a time
LowerTable ==
    [c \in Characters |->
        IF \E i \in 1..Len(UpperCase) : UpperCase[i] = c
        THEN LowerCase[CHOOSE i \in 1..Len(UpperCase) : UpperCase[i] = c]
        ELSE c]

Lower(c) == LowerTable[c]

LowerStr(s) == [i \in 1..Len(s) |-> Lower(s[i])]

hName == <<"N","a","m","e">>
hStrategy == <<"S","t","r","a","t","e","g","y">>
hDate == <<"D","a","t","e">>
hRefDate == <<"R","e","f"," ","d","a","t","e">>
hDay == <<"D","a","y">>
hScenario == <<"S","c","e","n","a","r","i","o">>
hStressPnL == <<"S","t","r","e","s","s"," ","P","n","L">>
hSTRESSPNL == <<"S","T","R","E","S","S"," ","P","N","L">>
hPnL == <<"P","n","L">>

\* columns.str.contains(pat, case=False): no character of either pattern
\* is special in a regular expression, so the search is a substring search
ContainsNoCase(pat, header) == Contains(LowerStr(pat), LowerStr(header))

Headers ==
    {hName, hStrategy, hDate, hRefDate, hDay, hScenario, hStressPnL,
     hSTRESSPNL, hPnL}

\* the headers each pattern is found in, computed once
HeadersContaining ==
    [pat \in {hDate, hStressPnL} |->
        {h \in Headers : ContainsNoCase(pat, h)}]

\* df.columns[df.columns.str.contains(pat, case=False, regex=True)]
MatchingColumns(columns, pat) ==
    {i \in 1..Len(columns) : columns[i] \in HeadersContaining[pat]}

SetMin(S) == CHOOSE x \in S : \A y \in S : x <= y
SetMax(S) == CHOOSE x \in S : \A y \in S : x >= y

\* ------------------------------------------------------------------------
\* load_stress_bystrat
\* ------------------------------------------------------------------------
MaxDate == 2
ValidDates == 1..MaxDate
BadDateCell == 0
NaT == 0 - 1

\* pd.to_datetime(..., errors="coerce")
ToDatetimeCoerce(c) == IF c \in ValidDates THEN c ELSE NaT

\* the [0] of an empty selection: numpy's message names neither the sheet
\* nor the header pattern
IndexError == [type |-> "IndexError", sheet |-> <<>>, pattern |-> <<>>]

BystratSheetError(sh) ==
    IF Len(sh.columns) = 0 THEN IndexError
    ELSE IF MatchingColumns(sh.columns, hDate) = {} THEN IndexError
    ELSE IF MatchingColumns(sh.columns, hStressPnL) = {} THEN IndexError
    ELSE NoError

\* the sheet's records with the "Total" rows dropped in the loader
BystratSheetRecordsNoTotal(sh) ==
    LET date_col == SetMin(MatchingColumns(sh.columns, hDate))
        pnl_col == SetMin(MatchingColumns(sh.columns, hStressPnL))
        kept == SelectSeq(sh.rows, LAMBDA r : r[1] # "Total")
    IN  [i \in 1..Len(kept) |->
            [Name |-> kept[i][1],
             Date |-> ToDatetimeCoerce(kept[i][date_col]),
             StressPnL |-> kept[i][pnl_col],
             Portfolio |-> SplitKey(sh.name)[1],
             ScenarioName |-> SplitKey(sh.name)[2]]]

\* one sheet of load_stress_bystrat, for a sheet whose columns are found
BystratSheetRecords(sh) ==
    LET date_col == SetMin(MatchingColumns(sh.columns, hDate))
        pnl_col == SetMin(MatchingColumns(sh.columns, hStressPnL))
    IN  [i \in 1..Len(sh.rows) |->
            [Name |-> sh.rows[i][1],
             Date |-> ToDatetimeCoerce(sh.rows[i][date_col]),
             StressPnL |-> sh.rows[i][pnl_col],
             Portfolio |-> SplitKey(sh.name)[1],
             ScenarioName |-> SplitKey(sh.name)[2]]]

RECURSIVE Concat(_)
\* pd.concat(records, ignore_index=True)
Concat(frames) ==
    IF frames = <<>> THEN <<>>
    ELSE Concat(SubSeq(frames, 1, Len(frames) - 1)) \o frames[Len(frames)]

\* Python's order of the text values that occur
CodePoint(c) == CASE c = "&" -> 38 [] c = "A" -> 65 [] c = "B" -> 66
                  [] c = "P" -> 80 [] c = "Q" -> 81 [] c = "R" -> 82
                  [] c = "X" -> 88 [] c = "Y" -> 89

RECURSIVE TextLess(_, _)
TextLess(a, b) ==
    IF b = <<>> THEN FALSE
    ELSE IF a = <<>> THEN TRUE
    ELSE IF a[1] # b[1] THEN CodePoint(a[1]) < CodePoint(b[1])
    ELSE TextLess(Tail(a), Tail(b))

NameOrder == <<"Credit", "Equity", "Rates", "Total">>
NameRank(n) == CHOOSE i \in 1..Len(NameOrder) : NameOrder[i] = n

\* missing dates sort last (na_position="last")
DateLess(a, b) == IF a = NaT THEN FALSE ELSE IF b = NaT THEN TRUE ELSE a < b

\* strict order on the sort key (Date, Portfolio, ScenarioName, Name)
KeyLess(a, b) ==
    IF a.Date # b.Date THEN DateLess(a.Date, b.Date)
    ELSE IF a.Portfolio # b.Portfolio THEN TextLess(a.Portfolio, b.Portfolio)
    ELSE IF a.ScenarioName # b.ScenarioName
         THEN TextLess(a.ScenarioName, b.ScenarioName)
    ELSE IF a.Name # b.Name THEN NameRank(a.Name) < NameRank(b.Name)
    ELSE FALSE

\* r placed after every row of the sorted frame that does not follow it
InsertRow(frame, r) ==
    LET before == {i \in 1..Len(frame) : ~KeyLess(r, frame[i])}
        n == IF before = {} THEN 0 ELSE SetMax(before)
    IN  SubSeq(frame, 1, n) \o <<r>> \o SubSeq(frame, n + 1, Len(frame))

RECURSIVE SortValues(_)
\* combined.sort_values(["Date", "Portfolio", "ScenarioName", "Name"]):
\* pandas sorts several keys with a stable lexsort
SortValues(frame) ==
    IF frame = <<>> THEN <<>>
    ELSE InsertRow(SortValues(SubSeq(frame, 1, Len(frame) - 1)),
                   frame[Len(frame)])

\* load_stress_bystrat(path): the first sheet whose columns are not found
\* ends the load with its exception
LoadStressBystrat(wb) ==
    IF \E i \in 1..Len(wb) : BystratSheetError(wb[i]) # NoError
    THEN [error |-> BystratSheetError(
                        wb[SetMin({i \in 1..Len(wb) :
                                      BystratSheetError(wb[i]) # NoError})]),
          value |-> NotRun]
    ELSE [error |-> NoError,
          value |-> SortValues(
                        Concat([i \in 1..Len(wb) |-> BystratSheetRecords(wb[i])]))]

\* ------------------------------------------------------------------------
\* SpecLoad: load_stress_bystrat applied to small workbooks
\* ------------------------------------------------------------------------
MaxRows == 1

\* sheet layouts: the columns, and where a row's cells stand in them
Layouts ==
    {[columns |-> <<hName, hDate, hScenario, hStressPnL>>,
      datePos |-> 2, pnlPos |-> 4],
     [columns |-> <<hStrategy, hScenario, hRefDate, hSTRESSPNL>>,
      datePos |-> 3, pnlPos |-> 4],
     [columns |-> <<hName, hDate, hScenario, hPnL>>,
      datePos |-> 2, pnlPos |-> 4],
     [columns |-> <<hName, hDay, hScenario, hStressPnL>>,
      datePos |-> 2, pnlPos |-> 4]}

RawRow(layout, name, day, pnl) ==
    [i \in 1..Len(layout.columns) |->
        IF i = 1 THEN name
        ELSE IF i = layout.datePos THEN day
        ELSE IF i = layout.pnlPos THEN pnl
        ELSE "S1"]

LoadCells ==
    {<<"Equity", 1, 5000>>, <<"Equity", 1, 0 - 3000>>,
     <<"Total", 1, 2000>>, <<"Equity", BadDateCell, 5000>>,
     <<"Credit", 2, 5000>>}

LoadBodies == UNION {[1..n -> LoadCells] : n \in 0..MaxRows}

LoadSheetNames == {<<"A">>, <<"A", "&", "&", "A">>, <<"B", "&", "&", "A">>}

LoadSheets ==
    {[name |-> k,
      columns |-> l.columns,
      rows |-> [i \in 1..Len(b) |-> RawRow(l, b[i][1], b[i][2], b[i][3])]] :
        k \in LoadSheetNames, l \in Layouts, b \in LoadBodies}

\* a workbook holds one or two sheets, of different names
LoadWorkbooks ==
    {<<a>> : a \in LoadSheets}
    \cup {w \in {<<a, b>> : a \in LoadSheets, b \in LoadSheets} :
             w[1].name # w[2].name}

InitLoad ==
    /\ SplitIdle
    /\ xls \in LoadWorkbooks
    /\ stress_bystrat = NotRun
    /\ load_error = NoError
    /\ stress_data = NotRun
    /\ StressIdle

\* stress_bystrat = load_stress_bystrat("stress_test_bystrat.xlsx")
LoadBystrat ==
    /\ stress_bystrat = NotRun
    /\ load_error = NoError
    /\ LET loaded == LoadStressBystrat(xls)
       IN  /\ stress_bystrat' = loaded.value
           /\ load_error' = loaded.error
    /\ UNCHANGED <<splitVars, xls, stress_data, pc, controlVars,
                   bystratVars, compareVars, quantVars, corrVars>>

NextLoad == LoadBystrat

SpecLoad == InitLoad /\ [][NextLoad]_vars

LoadReturned == stress_bystrat # NotRun
LoadRaised == load_error # NoError

\* the sheets of xls whose Date or Stress PnL column is not found
SheetsLackingColumn ==
    {i \in 1..Len(xls) :
        \/ \A j \in 1..Len(xls[i].columns) :
              ~ContainsNoCase(hDate, xls[i].columns[j])
        \/ \A j \in 1..Len(xls[i].columns) :
              ~ContainsNoCase(hStressPnL, xls[i].columns[j])}

\* C2: once load_stress_bystrat has run on a workbook with a sheet that
\* lacks a "Date" or a "Stress PnL" column, it has raised an error that
\* names that sheet and the missing pattern, and has returned no records.
MissingColumnErrorIsDescriptive ==
    (SheetsLackingColumn # {} /\ (LoadReturned \/ LoadRaised)) =>
        /\ ~LoadReturned
        /\ LoadRaised
        /\ load_error.sheet = xls[SetMin(SheetsLackingColumn)].name
        /\ load_error.pattern \in {hDate, hStressPnL}

\* the part of C2 the loader keeps: a sheet lacking a column never yields
\* a record set, the load ends in an exception
MissingColumnNeverSilent ==
    (SheetsLackingColumn # {} /\ (LoadReturned \/ LoadRaised)) =>
        ~LoadReturned /\ LoadRaised

Permute(wb, f) == [i \in 1..Len(wb) |-> wb[f[i]]]

IsSortedByKey(frame) ==
    \A i \in 1..(Len(frame) - 1) : ~KeyLess(frame[i + 1], frame[i])

RECURSIVE RowCount(_)
RowCount(wb) ==
    IF wb = <<>> THEN 0
    ELSE RowCount(SubSeq(wb, 1, Len(wb) - 1)) + Len(wb[Len(wb)].rows)

\* C6: the returned detail dataset is ascending in (Date, Portfolio,
\* ScenarioName, Name), has as many rows as the sheets together, and is the
\* same row sequence for every order of the sheets in the workbook.
DetailOrderIndependentOfSheetOrder ==
    LoadReturned =>
        /\ IsSortedByKey(stress_bystrat)
        /\ Len(stress_bystrat) = RowCount(xls)
        /\ \A f \in Permutations(1..Len(xls)) :
              LoadStressBystrat(Permute(xls, f)).value = stress_bystrat

\* the part of C6 the loader keeps: sorted, and no row lost or merged
DetailSortedAndComplete ==
    LoadReturned =>
        /\ IsSortedByKey(stress_bystrat)
        /\ Len(stress_bystrat) = RowCount(xls)

\* ------------------------------------------------------------------------
\* load_stress_data
\* ------------------------------------------------------------------------
HasColumn(columns, h) == \E i \in 1..Len(columns) : columns[i] = h
ColumnNamed(columns, h) == CHOOSE i \in 1..Len(columns) : columns[i] = h

KeyError(h) == [type |-> "KeyError", sheet |-> <<>>, pattern |-> h]
ValueError == [type |-> "ValueError", sheet |-> <<>>, pattern |-> <<>>]

TotalRows(sh) == SelectSeq(sh.rows, LAMBDA r : r[1] = "Total")

\* df["Date"], pd.to_datetime without errors="coerce", and the final column
\* selection each raise on a sheet that does not fit
StressSheetError(sh) ==
    IF Len(sh.columns) = 0 THEN IndexError
    ELSE IF ~HasColumn(sh.columns, hDate) THEN KeyError(hDate)
    ELSE IF \E i \in 1..Len(TotalRows(sh)) :
                TotalRows(sh)[i][ColumnNamed(sh.columns, hDate)]
                    \notin ValidDates
         THEN ValueError
    ELSE IF ~HasColumn(sh.columns, hScenario) THEN KeyError(hScenario)
    ELSE IF ~HasColumn(sh.columns, hStressPnL) THEN KeyError(hStressPnL)
    ELSE NoError

\* one sheet of load_stress_data: the rows whose first cell is "Total"
StressSheetRecords(sh) ==
    LET total == TotalRows(sh)
    IN  [i \in 1..Len(total) |->
            [Date |-> total[i][ColumnNamed(sh.columns, hDate)],
             Scenario |-> total[i][ColumnNamed(sh.columns, hScenario)],
             StressPnL |-> total[i][ColumnNamed(sh.columns, hStressPnL)],
             Portfolio |-> SplitKey(sh.name)[1],
             ScenarioName |-> SplitKey(sh.name)[2]]]

\* load_stress_data(path)
LoadStressData(wb) ==
    IF \E i \in 1..Len(wb) : StressSheetError(wb[i]) # NoError
    THEN [error |-> StressSheetError(
                        wb[SetMin({i \in 1..Len(wb) :
                                      StressSheetError(wb[i]) # NoError})]),
          value |-> NotRun]
    ELSE [error |-> NoError,
          value |-> Concat([i \in 1..Len(wb) |-> StressSheetRecords(wb[i])])]

\* ------------------------------------------------------------------------
\* Name map
\* ------------------------------------------------------------------------
NAME_MAP == [x \in {<<"P">>} |-> <<"P", "r", "i", "m", "e">>]

\* NAME_MAP.get(x, x)
pretty_name(x) == IF x \in DOMAIN NAME_MAP THEN NAME_MAP[x] ELSE x

\* ------------------------------------------------------------------------
\* Bucket statistics: Series.median and Series.quantile, whose default
\* interpolation is linear.  Results are in quarters of a unit.
\* ------------------------------------------------------------------------
InsertInt(s, v) ==
    LET before == {i \in 1..Len(s) : s[i] <= v}
        n == IF before = {} THEN 0 ELSE SetMax(before)
    IN  SubSeq(s, 1, n) \o <<v>> \o SubSeq(s, n + 1, Len(s))

RECURSIVE SortInts(_)
SortInts(x) ==
    IF x = <<>> THEN <<>>
    ELSE InsertInt(SortInts(SubSeq(x, 1, Len(x) - 1)), x[Len(x)])

\* interpolation="lower" in place of "linear"
Quantile4Lower(x, k) ==
    LET sorted == SortInts(x)
        pos == (Len(x) - 1) * k
    IN  4 * sorted[(pos \div 4) + 1]

\* 4 * x.quantile(k / 4) for a non-empty x: the value at position
\* (n - 1) * k / 4 of the sorted values, interpolated linearly
Quantile4(x, k) ==
    LET sorted == SortInts(x)
        pos == (Len(x) - 1) * k
        j == (pos \div 4) + 1
        frac == pos % 4
    IN  IF frac = 0 THEN 4 * sorted[j]
        ELSE 4 * sorted[j] + frac * (sorted[j + 1] - sorted[j])

\* .agg(bucket_median="median", q25=quantile(0.25), q75=quantile(0.75))
BucketStats(x) ==
    [bucket_median |-> Quantile4(x, 2),
     q25 |-> Quantile4(x, 1),
     q75 |-> Quantile4(x, 3)]

\* ------------------------------------------------------------------------
\* Stress tab
\* ------------------------------------------------------------------------
PnlUnit == 1000
PnlFloor == 10

Abs(v) == IF v < 0 THEN 0 - v ELSE v

RECURSIVE Sum(_)
Sum(x) == IF x = <<>> THEN 0 ELSE Sum(SubSeq(x, 1, Len(x) - 1)) + x[Len(x)]

\* what a selectbox returns: one of its options, None when it has none
Options(S) == IF S = {} THEN {None} ELSE S

Column(frame, c) == [i \in 1..Len(frame) |-> frame[i][c]]
ValuesOf(frame, c) == {frame[i][c] : i \in 1..Len(frame)}

\* the options without dropna()
DatesBystratKeepingNull(frame) == ValuesOf(frame, "Date")

\* stress_bystrat["Date"].dropna().unique(), as a set: sorted() only
\* orders the options
DatesBystrat(frame) == ValuesOf(frame, "Date") \ {NaT}

\* df_detail = stress_bystrat[(Date == ...) & (Portfolio == ...) &
\*                            (ScenarioName == ...) & (Name != "Total")];
\* in the comparison of the dates NaT equals nothing, NaT included
DetailFilter(data, d, p, sc) ==
    SelectSeq(data, LAMBDA r :
        /\ r.Date # NaT
        /\ r.Date = d
        /\ r.Portfolio = p
        /\ r.ScenarioName = sc
        /\ r.Name # "Total")

\* np.max(np.abs(vals)) if np.max(np.abs(vals)) != 0 else 1
MaxAbs(vals) ==
    LET m == SetMax({Abs(vals[i]) : i \in 1..Len(vals)})
    IN  IF m # 0 THEN m ELSE PnlUnit

\* the size column without the floor
LeafSizeNoFloor(v) == Abs(v)

\* df_tm["StressPnL"].abs().clip(lower=0.01)
LeafSize(v) == IF Abs(v) < PnlFloor THEN PnlFloor ELSE Abs(v)

\* f"{pretty_name(clicked_portfolio)} - {clicked_scenario} ({date})"
RootLabel(p, sc, d) == <<pretty_name(p), " - ", sc, d>>

\* the colours of the first computations: each value over max_abs
NormalisedColors(vals) ==
    <<"white">> \o [i \in 1..Len(vals) |-> (vals[i] * PnlUnit) \div MaxAbs(vals)]

\* colors = ["white"] + df_tm["StressPnL"].tolist(): the raw values; the
\* rgba strings computed before from max_abs are overwritten here
TreemapColors(vals) == <<"white">> \o vals

\* labels, parents, values and marker colours handed to go.Treemap (the
\* text column, the rounded values as strings, is left out)
Treemap(df_tm, root_label) ==
    LET size == [i \in 1..Len(df_tm) |-> LeafSize(df_tm[i].StressPnL)]
    IN  [labels |-> <<root_label>> \o Column(df_tm, "Name"),
         parents |-> <<"">> \o [i \in 1..Len(df_tm) |-> root_label],
         values |-> <<Sum(size)>> \o size,
         colors |-> TreemapColors(Column(df_tm, "StressPnL"))]

RECURSIVE SortedTexts(_)
\* groupby sorts the group keys
SortedTexts(S) ==
    IF S = {} THEN <<>>
    ELSE LET least == CHOOSE a \in S : \A b \in S : ~TextLess(b, a)
         IN  <<least>> \o SortedTexts(S \ {least})

\* df_b.groupby("ScenarioName")["StressPnL"].agg(...).reset_index()
Bucket(df_b) ==
    LET groups == SortedTexts(ValuesOf(df_b, "ScenarioName"))
    IN  [g \in 1..Len(groups) |->
            LET x == Column(SelectSeq(df_b,
                         LAMBDA r : r.ScenarioName = groups[g]), "StressPnL")
            IN  [ScenarioName |-> groups[g],
                 bucket_median |-> BucketStats(x).bucket_median,
                 q25 |-> BucketStats(x).q25,
                 q75 |-> BucketStats(x).q75]]

JoinedRow(l, r) ==
    [Date |-> l.Date, Scenario |-> l.Scenario, StressPnL |-> l.StressPnL,
     Portfolio |-> l.Portfolio, ScenarioName |-> l.ScenarioName,
     bucket_median |-> r.bucket_median, q25 |-> r.q25, q75 |-> r.q75]

\* a left join: a subject row without bucket statistics is kept
MergeLeft(left, right) ==
    Concat([i \in 1..Len(left) |->
        LET m == SelectSeq(right,
                     LAMBDA r : r.ScenarioName = left[i].ScenarioName)
        IN  IF m = <<>>
            THEN <<JoinedRow(left[i],
                     [bucket_median |-> NaT, q25 |-> NaT, q75 |-> NaT])>>
            ELSE [j \in 1..Len(m) |-> JoinedRow(left[i], m[j])]])

\* df_p.merge(bucket, on="ScenarioName"): an inner join in the order of
\* the left rows
Merge(left, right) ==
    Concat([i \in 1..Len(left) |->
        LET m == SelectSeq(right,
                     LAMBDA r : r.ScenarioName = left[i].ScenarioName)
        IN  [j \in 1..Len(m) |-> JoinedRow(left[i], m[j])]])

\* stress_data = load_stress_data(...); stress_bystrat = load_stress_bystrat(...)
LoadData ==
    /\ pc = "load"
    /\ LET totals == LoadStressData(xls)
           detail == LoadStressBystrat(xls)
       IN  IF totals.error # NoError
           THEN /\ load_error' = totals.error
                /\ pc' = "crashed"
                /\ UNCHANGED <<stress_data, stress_bystrat>>
           ELSE IF detail.error # NoError
           THEN /\ load_error' = detail.error
                /\ pc' = "crashed"
                /\ stress_data' = totals.value
                /\ UNCHANGED stress_bystrat
           ELSE /\ stress_data' = totals.value
                /\ stress_bystrat' = detail.value
                /\ pc' = "controls"
                /\ UNCHANGED load_error
    /\ UNCHANGED <<splitVars, xls, controlVars, bystratVars, compareVars,
                   quantVars, corrVars>>

\* the controls column: date, portfolios and scenarios, each narrowing df
Controls ==
    /\ pc = "controls"
    /\ \E d \in ValuesOf(stress_data, "Date") :
        LET df1 == SelectSeq(stress_data, LAMBDA r : r.Date = d)
        IN  \E ports \in SUBSET ValuesOf(df1, "Portfolio") :
            LET df2 == SelectSeq(df1, LAMBDA r : r.Portfolio \in ports)
            IN  \E scen \in SUBSET ValuesOf(df2, "ScenarioName") :
                /\ date' = d
                /\ sel_ports' = ports
                /\ sel_scen' = scen
                /\ df' = SelectSeq(df2, LAMBDA r : r.ScenarioName \in scen)
    /\ pc' = "bystrat"
    /\ UNCHANGED <<splitVars, loadVars, bystratVars, compareVars,
                   quantVars, corrVars>>

\* the by-strategy expander: the treemap, or the "No data available" note
ByStrategy ==
    /\ pc = "bystrat"
    /\ \E d \in DatesBystrat(stress_bystrat),
          p \in Options(sel_ports),
          sc \in Options(sel_scen) :
        LET detail == DetailFilter(stress_bystrat, d, p, sc)
        IN  /\ dates_bystrat' = DatesBystrat(stress_bystrat)
            /\ selected_date' = d
            /\ clicked_portfolio' = p
            /\ clicked_scenario' = sc
            /\ df_detail' = detail
            /\ IF detail # <<>>
               THEN /\ max_abs' = MaxAbs(Column(detail, "StressPnL"))
                    /\ fig_detail' = Treemap(detail, RootLabel(p, sc, d))
                    /\ bystrat_view' = "chart"
               ELSE /\ fig_detail' = NoFigure
                    /\ bystrat_view' = "info"
                    /\ UNCHANGED max_abs
    /\ pc' = "comparison"
    /\ UNCHANGED <<splitVars, loadVars, controlVars, compareVars,
                   quantVars, corrVars>>

\* the comparison section: subject against the bucket of the others
Comparison ==
    /\ pc = "comparison"
    /\ \E p \in Options(sel_ports) :
        LET df_p == SelectSeq(df, LAMBDA r : r.Portfolio = p)
            df_b == SelectSeq(df, LAMBDA r : r.Portfolio # p)
        IN  /\ selected_portfolio' = p
            /\ bucket' = Bucket(df_b)
            /\ plot_df' = Merge(df_p, Bucket(df_b))
    /\ pc' = "done"
    /\ UNCHANGED <<splitVars, loadVars, controlVars, bystratVars,
                   quantVars, corrVars>>

\* ------------------------------------------------------------------------
\* SpecStress: the stress tab run once over small workbooks
\* ------------------------------------------------------------------------
MaxLeaves == 2

StdColumns == <<hName, hDate, hScenario, hStressPnL>>
StdLayout == [columns |-> StdColumns, datePos |-> 2, pnlPos |-> 4]

kPX == <<"P", "&", "&", "X">>
kPY == <<"P", "&", "&", "Y">>
kQX == <<"Q", "&", "&", "X">>
kQY == <<"Q", "&", "&", "Y">>
kRX == <<"R", "&", "&", "X">>

DetailVals == {5000, 0 - 3000, 0, 5}
DetailBodies == UNION {[1..n -> DetailVals] : n \in 0..MaxLeaves}

\* a sheet of strategy rows followed by their "Total" row, all of one date
DetailSheet(k, day, body) ==
    [name |-> k,
     columns |-> StdColumns,
     rows |-> [i \in 1..Len(body) |->
                  RawRow(StdLayout, NameOrder[i], day, body[i])]
              \o <<RawRow(StdLayout, "Total", day, Sum(body))>>]

\* workbooks for the by-strategy view: the strategies of P under X, with
\* or without a second portfolio
DetailWorkbooks ==
    {<<DetailSheet(kPX, d, b)>> : d \in ValidDates, b \in DetailBodies}
    \cup {<<DetailSheet(kPX, d, b), DetailSheet(kQX, e, <<1000>>)>> :
             d \in ValidDates, b \in DetailBodies, e \in ValidDates}

\* the cells a date column can hold: a date, or text that is no date
DateCells == ValidDates \cup {BadDateCell}

\* a sheet whose strategy rows and "Total" row each have a date cell of
\* their own
MixedDateSheet(k, days, total_day) ==
    [name |-> k,
     columns |-> StdColumns,
     rows |-> [i \in 1..Len(days) |->
                  RawRow(StdLayout, NameOrder[i], days[i], i * PnlUnit)]
              \o <<RawRow(StdLayout, "Total", total_day,
                          (Len(days) * (Len(days) + 1) * PnlUnit) \div 2)>>]

\* workbooks whose date cells may be unparsable
NullDateWorkbooks ==
    {<<MixedDateSheet(kPX, days, t)>> :
        days \in UNION {[1..n -> DateCells] : n \in 0..MaxLeaves},
        t \in DateCells}

CompareKeyOrder == <<kPX, kPY, kQX, kQY, kRX>>
CompareTotal(k) ==
    CASE k[1] = "P" -> 1000 [] k[1] = "Q" -> 2000 [] k[1] = "R" -> 4000

\* workbooks for the comparison: any sheets of three portfolios and two
\* scenarios, one strategy row and the "Total" row each
CompareWorkbooks ==
    {SelectSeq([i \in 1..Len(CompareKeyOrder) |->
                   DetailSheet(CompareKeyOrder[i], 1,
                               <<CompareTotal(CompareKeyOrder[i])>>)],
               LAMBDA sh : sh.name \in S) :
        S \in SUBSET {CompareKeyOrder[i] : i \in 1..Len(CompareKeyOrder)}}
    \ {<<>>}

InitStress ==
    /\ SplitIdle
    /\ QuantIdle
    /\ CorrIdle
    /\ xls \in DetailWorkbooks \cup CompareWorkbooks \cup NullDateWorkbooks
    /\ stress_bystrat = NotRun
    /\ load_error = NoError
    /\ stress_data = NotRun
    /\ pc = "load"
    /\ date = None /\ sel_ports = {} /\ sel_scen = {} /\ df = <<>>
    /\ dates_bystrat = {}
    /\ selected_date = None /\ clicked_portfolio = None
    /\ clicked_scenario = None /\ df_detail = <<>> /\ max_abs = 0
    /\ fig_detail = NoFigure /\ bystrat_view = NotRun
    /\ selected_portfolio = None /\ bucket = <<>> /\ plot_df = <<>>

NextStress == LoadData \/ Controls \/ ByStrategy \/ Comparison

SpecStress == InitStress /\ [][NextStress]_vars

SubjectRows == SelectSeq(df, LAMBDA r : r.Portfolio = selected_portfolio)
BucketRows == SelectSeq(df, LAMBDA r : r.Portfolio # selected_portfolio)
sX == <<"X">>
sY == <<"Y">>

\* C1: the joined output has a row for scenario s exactly when s occurs in
\* a subject row and in a bucket row; with one subject row for each of X
\* and Y and bucket rows for X only, the output is the single row of X.
JoinIsInner ==
    pc = "done" =>
        /\ \A s \in ValuesOf(stress_data, "ScenarioName") :
              (s \in ValuesOf(plot_df, "ScenarioName"))
                  <=> /\ s \in ValuesOf(SubjectRows, "ScenarioName")
                      /\ s \in ValuesOf(BucketRows, "ScenarioName")
        /\ ValuesOf(plot_df, "ScenarioName")
              \subseteq ValuesOf(stress_data, "ScenarioName")
        /\ (/\ Len(SubjectRows) = 2
            /\ ValuesOf(SubjectRows, "ScenarioName") = {sX, sY}
            /\ ValuesOf(BucketRows, "ScenarioName") = {sX})
               => /\ Len(plot_df) = 1
                  /\ plot_df[1].ScenarioName = sX

\* the comparison has run on subject rows for X and Y and a bucket for X
JoinIsInnerWitness ==
    /\ pc = "done"
    /\ Len(SubjectRows) = 2
    /\ ValuesOf(SubjectRows, "ScenarioName") = {sX, sY}
    /\ ValuesOf(BucketRows, "ScenarioName") = {sX}
    /\ Len(plot_df) = 1

RECURSIVE SourceRowsNamed(_, _)
\* the rows of the workbook whose first cell is n
SourceRowsNamed(wb, n) ==
    IF wb = <<>> THEN 0
    ELSE SourceRowsNamed(SubSeq(wb, 1, Len(wb) - 1), n)
         + Len(SelectSeq(wb[Len(wb)].rows, LAMBDA r : r[1] = n))

RecordsNamed(frame, n) == Len(SelectSeq(frame, LAMBDA r : r.Name = n))
StrategyNames == {NameOrder[i] : i \in 1..Len(NameOrder)} \ {"Total"}

\* C3 as stated: the value returned by load_stress_bystrat has one record
\* per non-aggregate source row and no record named "Total".
LoaderExcludesTotal ==
    stress_bystrat # NotRun =>
        /\ \A n \in StrategyNames :
              RecordsNamed(stress_bystrat, n) = SourceRowsNamed(xls, n)
        /\ RecordsNamed(stress_bystrat, "Total") = 0

\* C3 as amended: the value returned by load_stress_bystrat has one record
\* per source row, the rows named "Total" among them; it is the by-strategy
\* filter that leaves no record named "Total" in df_detail.
TotalExcludedByViewOnly ==
    /\ stress_bystrat # NotRun =>
          /\ Len(stress_bystrat) = RowCount(xls)
          /\ \A n \in StrategyNames \cup {"Total"} :
                RecordsNamed(stress_bystrat, n) = SourceRowsNamed(xls, n)
    /\ bystrat_view # NotRun => RecordsNamed(df_detail, "Total") = 0

\* the loaded dataset holds the "Total" row of the selection shown, and
\* the treemap's records do not
TotalExcludedByViewOnlyWitness ==
    /\ bystrat_view = "chart"
    /\ \E i \in 1..Len(stress_bystrat) :
          /\ stress_bystrat[i].Name = "Total"
          /\ stress_bystrat[i].Date = selected_date
          /\ stress_bystrat[i].Portfolio = clicked_portfolio
          /\ stress_bystrat[i].ScenarioName = clicked_scenario
    /\ RecordsNamed(df_detail, "Total") = 0

Leaves == 1..Len(df_detail)

\* C7: in a rendered treemap each leaf weighs max(|value|, 0.01), the one
\* root is the first node, every leaf hangs from it, and the root weighs
\* the sum of the leaves; 5.0 and -3.0 give leaves 5.0, 3.0 and root 8.0.
TreemapWeights ==
    bystrat_view = "chart" =>
        /\ Len(df_detail) > 0
        /\ Len(fig_detail.labels) = Len(df_detail) + 1
        /\ Len(fig_detail.parents) = Len(df_detail) + 1
        /\ Len(fig_detail.values) = Len(df_detail) + 1
        /\ {i \in 1..Len(fig_detail.parents) : fig_detail.parents[i] = ""} = {1}
        /\ \A i \in Leaves :
              /\ fig_detail.parents[i + 1] = fig_detail.labels[1]
              /\ fig_detail.labels[i + 1] = df_detail[i].Name
              /\ fig_detail.values[i + 1] >= PnlFloor
              /\ fig_detail.values[i + 1] >= Abs(df_detail[i].StressPnL)
              /\ fig_detail.values[i + 1] \in
                    {PnlFloor, Abs(df_detail[i].StressPnL)}
        /\ fig_detail.values[1] = Sum(Tail(fig_detail.values))
        /\ fig_detail.values[1] >= Len(df_detail) * PnlFloor
        /\ Column(df_detail, "StressPnL") = <<5000, 0 - 3000>>
              => fig_detail.values = <<8000, 5000, 3000>>

\* the treemap of the values 5.0 and -3.0 has been built
TreemapWeightsWitness ==
    /\ bystrat_view = "chart"
    /\ Column(df_detail, "StressPnL") = <<5000, 0 - 3000>>
    /\ fig_detail.values = <<8000, 5000, 3000>>

AllZero == \A i \in Leaves : df_detail[i].StressPnL = 0
LargestMagnitude == SetMax({Abs(df_detail[i].StressPnL) : i \in Leaves})

\* C8 as stated: the colour of each leaf of the rendered treemap is its
\* value over max_abs (the largest magnitude, or 1 when all values are
\* zero), so it lies in [-1, 1].
ColorIsValueOverMaxAbs ==
    bystrat_view = "chart" =>
        /\ max_abs = (IF AllZero THEN PnlUnit ELSE LargestMagnitude)
        /\ \A i \in Leaves :
              /\ fig_detail.colors[i + 1] * max_abs
                    = df_detail[i].StressPnL * PnlUnit
              /\ Abs(fig_detail.colors[i + 1]) <= PnlUnit

\* C8 as amended: the colour of each leaf of the rendered treemap is its
\* raw signed value; max_abs is the largest magnitude, or 1 when all
\* values are zero, and is never zero.
ColorIsRawValue ==
    bystrat_view = "chart" =>
        /\ max_abs = (IF AllZero THEN PnlUnit ELSE LargestMagnitude)
        /\ max_abs > 0
        /\ Len(fig_detail.colors) = Len(df_detail) + 1
        /\ \A i \in Leaves :
              fig_detail.colors[i + 1] = df_detail[i].StressPnL

\* the treemap of 5.0 and -3.0 is coloured 5.0 and -3.0, not 1.0 and -0.6
ColorIsRawValueWitness ==
    /\ bystrat_view = "chart"
    /\ Column(df_detail, "StressPnL") = <<5000, 0 - 3000>>
    /\ max_abs = 5000
    /\ fig_detail.colors = <<"white", 5000, 0 - 3000>>

RECURSIVE NullDateRows(_)
\* the rows of the workbook whose date cell is no date
NullDateRows(wb) ==
    IF wb = <<>> THEN 0
    ELSE NullDateRows(SubSeq(wb, 1, Len(wb) - 1))
         + Len(SelectSeq(wb[Len(wb)].rows,
                         LAMBDA r : r[StdLayout.datePos] \notin ValidDates))

\* the dates found in the date cells of the workbook
SourceDates(wb) ==
    UNION {{wb[i].rows[j][StdLayout.datePos] : j \in 1..Len(wb[i].rows)} :
              i \in 1..Len(wb)}
        \cap ValidDates

NullDated(frame) == SelectSeq(frame, LAMBDA r : r.Date = NaT)

DetailLoaded == pc \in {"controls", "bystrat", "comparison", "done"}
ByStrategyShown == pc \in {"comparison", "done"}

\* C11: detail extraction never fails on a date cell that is no date and
\* keeps the row: the detail dataset has one record per source row, and as
\* many null-dated records as the workbook has rows without a date.  The
\* dates offered by the by-strategy "Select date" are exactly the dates of
\* the workbook, the null date never among them, the selected date is one
\* of them, and no record of the by-strategy view has a null date.
NullDateKeptNeverShown ==
    /\ LoadStressBystrat(xls).error = NoError
    /\ Len(LoadStressBystrat(xls).value) = RowCount(xls)
    /\ DetailLoaded =>
          /\ Len(stress_bystrat) = RowCount(xls)
          /\ Len(NullDated(stress_bystrat)) = NullDateRows(xls)
    /\ ByStrategyShown =>
          /\ NaT \notin dates_bystrat
          /\ dates_bystrat = SourceDates(xls)
          /\ selected_date \in dates_bystrat
          /\ NullDated(df_detail) = <<>>

\* a strategy row without a date was kept with a null date, and the view
\* has charted the dated strategy rows of the same sheet
NullDateKeptNeverShownWitness ==
    /\ ByStrategyShown
    /\ \E i \in 1..Len(stress_bystrat) :
          /\ stress_bystrat[i].Date = NaT
          /\ stress_bystrat[i].Name # "Total"
          /\ stress_bystrat[i].Portfolio = clicked_portfolio
          /\ stress_bystrat[i].ScenarioName = clicked_scenario
    /\ NullDateRows(xls) > 0
    /\ bystrat_view = "chart"
    /\ df_detail # <<>>
    /\ Len(df_detail) < RecordsNamed(stress_bystrat, "Credit")
                          + RecordsNamed(stress_bystrat, "Equity")

\* ------------------------------------------------------------------------
\* SpecQuantile: the bucket aggregation applied to one scenario group
\* ------------------------------------------------------------------------
MaxBucket == 4
BucketVals == {10, 20, 30, 40}

InitQuantile ==
    /\ SplitIdle
    /\ LoadIdle
    /\ CorrIdle
    /\ bucket_values \in UNION {[1..n -> BucketVals] : n \in 1..MaxBucket}
    /\ bucket_stats = <<>>
    /\ TabIdle

\* the aggregation of one group of df_b.groupby("ScenarioName")
Aggregate ==
    /\ bucket_stats = <<>>
    /\ bucket_stats' = <<BucketStats(bucket_values)>>
    /\ UNCHANGED <<splitVars, loadVars, pc, controlVars, bystratVars,
                   compareVars, bucket_values, corrVars>>

NextQuantile == Aggregate

SpecQuantile == InitQuantile /\ [][NextQuantile]_vars

\* the values ascending: as many of them are below each place as the
\* places before it
IsAscendingOrderOf(srt, x) ==
    /\ Len(srt) = Len(x)
    /\ \A i \in 1..(Len(srt) - 1) : srt[i] <= srt[i + 1]
    /\ \A v \in BucketVals :
          Cardinality({i \in 1..Len(x) : x[i] = v})
              = Cardinality({i \in 1..Len(srt) : srt[i] = v})

Ascending(x) ==
    CHOOSE srt \in [1..Len(x) -> BucketVals] : IsAscendingOrderOf(srt, x)

\* 4 times the value at position (n - 1) * k / 4, counted from 0, of the
\* ascending values, interpolated between its two neighbours
AtPosition4(x, k) ==
    LET srt == Ascending(x)
        lo == ((Len(x) - 1) * k) \div 4
        rest == ((Len(x) - 1) * k) - 4 * lo
    IN  IF rest = 0 THEN 4 * srt[lo + 1]
        ELSE (4 - rest) * srt[lo + 1] + rest * srt[lo + 2]

\* C9: the 25th percentile, the median and the 75th percentile of a group
\* are the linearly interpolated values at positions (n-1)*p of the sorted
\* values, so q25 <= median <= q75; [10, 20, 30, 40] gives median 25,
\* q25 17.5 and q75 32.5 (all held in quarters).
QuantilesInterpolate ==
    bucket_stats # <<>> =>
        /\ bucket_stats[1].q25 = AtPosition4(bucket_values, 1)
        /\ bucket_stats[1].bucket_median = AtPosition4(bucket_values, 2)
        /\ bucket_stats[1].q75 = AtPosition4(bucket_values, 3)
        /\ bucket_stats[1].q25 <= bucket_stats[1].bucket_median
        /\ bucket_stats[1].bucket_median <= bucket_stats[1].q75
        /\ bucket_values = <<10, 20, 30, 40>> =>
              /\ bucket_stats[1].bucket_median = 100
              /\ bucket_stats[1].q25 = 70
              /\ bucket_stats[1].q75 = 130

\* the group 40, 10, 30, 20, given unsorted, has been aggregated
QuantilesInterpolateWitness ==
    /\ bucket_stats # <<>>
    /\ bucket_values = <<40, 10, 30, 20>>
    /\ bucket_stats = <<[bucket_median |-> 100, q25 |-> 70, q75 |-> 130]>>

\* ------------------------------------------------------------------------
\* Correlation tab
\* ------------------------------------------------------------------------
MaxObs == 3
CorrDays == 1..MaxObs
CorrSeries == {"S1", "S2"}
CorrVals == {0 - 50, 50}

RECURSIVE AscendingDays(_)
AscendingDays(D) ==
    IF D = {} THEN <<>> ELSE <<SetMin(D)>> \o AscendingDays(D \ {SetMin(D)})

\* the frames load_corr_data returns: one row per observed day, in the
\* order of the days (set_index(...).sort_index())
CorrFrames ==
    UNION {{[i \in 1..Cardinality(D) |->
                [index |-> AscendingDays(D)[i],
                 values |-> obs[AscendingDays(D)[i]]]] :
              obs \in [D -> [CorrSeries -> CorrVals]]} :
           D \in (SUBSET CorrDays) \ {{}}}

SeriesValues(frame, c) == [i \in 1..Len(frame) |-> frame[i].values[c]]
MinOf(x) == SetMin({x[i] : i \in 1..Len(x)})
MaxOf(x) == SetMax({x[i] : i \in 1..Len(x)})

\* the earliest day in place of the latest
FirstIndexWhere(frame, c, v) ==
    SetMin({frame[i].index : i \in {j \in 1..Len(frame) : frame[j].values[c] = v}})

\* df[col][df[col] == v].index.max()
LastIndexWhere(frame, c, v) ==
    SetMax({frame[i].index : i \in {j \in 1..Len(frame) : frame[j].values[c] = v}})

\* .dt.strftime("%d/%m/%Y")
Strftime(t) == <<"%d/%m/%Y", t>>

\* one row of stats_df; the mean is held as the sum and the count
SummaryRow(frame, c) ==
    LET x == SeriesValues(frame, c)
    IN  [Name |-> c,
         Mean |-> [sum |-> Sum(x), count |-> Len(x)],
         Min |-> MinOf(x),
         MinDate |-> Strftime(LastIndexWhere(frame, c, MinOf(x))),
         Max |-> MaxOf(x),
         MaxDate |-> Strftime(LastIndexWhere(frame, c, MaxOf(x)))]

InitCorr ==
    /\ SplitIdle
    /\ LoadIdle
    /\ QuantIdle
    /\ TabIdle
    /\ corr \in CorrFrames
    /\ start = 0 /\ end = 0 /\ selected = {}
    /\ corr_df = <<>> /\ stats_df = <<>> /\ corr_view = NotRun

\* the correlation tab for one date range and one choice of series: the
\* time series, the radar of the last day against the period mean, and the
\* summary statistics.  On an empty range df.index.max() is NaT and
\* df.loc[snapshot_date, selected] raises KeyError before the statistics.
CorrelationTab ==
    /\ corr_view = NotRun
    /\ \E s \in 0..(MaxObs + 1), e \in 0..(MaxObs + 1),
          sel \in SUBSET CorrSeries :
        /\ s <= e
        /\ start' = s
        /\ end' = e
        /\ selected' = sel
        /\ LET range == SelectSeq(corr, LAMBDA r : s <= r.index /\ r.index <= e)
           IN  /\ corr_df' = range
               /\ IF range = <<>>
                  THEN /\ corr_view' = "KeyError"
                       /\ UNCHANGED stats_df
                  ELSE /\ corr_view' = "shown"
                       /\ stats_df' = [c \in sel |-> SummaryRow(range, c)]
    /\ UNCHANGED <<splitVars, loadVars, pc, controlVars, bystratVars,
                   compareVars, quantVars, corr>>

NextCorr == CorrelationTab

SpecCorr == InitCorr /\ [][NextCorr]_vars

\* C4: a view whose filtered record set is empty shows "no data" and skips
\* its chart; it never ends in an error, and the treemap of an empty set is
\* not built.
EmptySelectionShowsNoData ==
    /\ (corr_view # NotRun /\ corr_df = <<>>) => corr_view = "no data"
    /\ (bystrat_view # NotRun /\ df_detail = <<>>) =>
          bystrat_view = "info" /\ fig_detail = NoFigure

\* the part of C4 the by-strategy view keeps
EmptyDetailShowsInfo ==
    bystrat_view # NotRun =>
        /\ df_detail = <<>> => (bystrat_view = "info" /\ fig_detail = NoFigure)
        /\ df_detail # <<>> => bystrat_view = "chart"

InRange == {i \in 1..Len(corr) : start <= corr[i].index /\ corr[i].index <= end}

\* C10: for every selected series, Min Date is the latest day of the range
\* at which the series is at its minimum over the range and Max Date the
\* latest at which it is at its maximum; a constant series has both dates
\* on the last day of the range and mean = min = max.
SummaryDatesAreLatest ==
    corr_view = "shown" =>
        /\ DOMAIN stats_df = selected
        /\ \A c \in selected :
            LET row == stats_df[c]
                atMin == {i \in InRange : corr[i].values[c] = row.Min}
                atMax == {i \in InRange : corr[i].values[c] = row.Max}
            IN  /\ \A i \in InRange : row.Min <= corr[i].values[c]
                /\ \A i \in InRange : row.Max >= corr[i].values[c]
                /\ atMin # {} /\ atMax # {}
                /\ row.MinDate = Strftime(corr[SetMax(atMin)].index)
                /\ row.MaxDate = Strftime(corr[SetMax(atMax)].index)
                /\ row.Mean.count * row.Min <= row.Mean.sum
                /\ row.Mean.sum <= row.Mean.count * row.Max
                /\ (\A i, j \in InRange : corr[i].values[c] = corr[j].values[c])
                      => /\ row.MinDate = Strftime(corr[SetMax(InRange)].index)
                         /\ row.MaxDate = row.MinDate
                         /\ row.Min = row.Max
                         /\ row.Mean.sum = row.Mean.count * row.Min

\* a series at its minimum on two days of the range is reported with the
\* later one, and a constant series of several days with the last day
SummaryDatesAreLatestWitness ==
    /\ corr_view = "shown"
    /\ selected = CorrSeries
    /\ \E i, j \in InRange :
          /\ i < j
          /\ corr[i].values["S1"] = stats_df["S1"].Min
          /\ corr[j].values["S1"] = stats_df["S1"].Min
          /\ stats_df["S1"].Max # stats_df["S1"].Min
          /\ stats_df["S1"].MinDate = Strftime(corr[j].index)
          /\ stats_df["S1"].MinDate # Strftime(corr[SetMax(InRange)].index)
    /\ stats_df["S2"].Min = stats_df["S2"].Max
    /\ stats_df["S2"].MinDate = Strftime(corr[SetMax(InRange)].index)
    /\ Cardinality(InRange) > 1

====
